---- MODULE Spec2Model ----
(***************************************************************************)
(* Root finding in main.py: bisection, secant, newton and                  *)
(* difference_quotient, each modelled statement by statement.              *)
(*                                                                         *)
(* Numbers are exact rationals <<numerator, denominator>> in lowest terms  *)
(* with a positive denominator, so the arithmetic of the source            *)
(* (+, -, *, /, abs, <) is computed, not abstracted.  Floating-point       *)
(* rounding, underflow and NaN are outside this model.                     *)
(*                                                                         *)
(* The evaluators f, df and ddf are arbitrary caller-supplied functions:   *)
(* every evaluation at a point not seen before picks any outcome (a value  *)
(* or an exception), and memo remembers it so that each evaluator is a     *)
(* function of its argument.                                               *)
(***************************************************************************)
EXTENDS Integers, Sequences, FiniteSets, TLC

\* ------------------------------------------------------------------ bounds

\* Endpoints and points handed to the solvers are the integers 0..MaxPoint.
MaxPoint == 1

\* Iteration budgets (max_iter, max_iters) range over 0..MaxIter.
MaxIter == 2

\* The values the evaluators may return: f, its derivative df, and its
\* second derivative ddf (of which newton reads only the sign).
Vals == {-2, -1, 0, 1, 2}
Slopes == {0, 2}
Curvatures == {-1, 0, 1}

\* ------------------------------------------------------- exact arithmetic

Abs(n) == IF n < 0 THEN -n ELSE n

RECURSIVE GCD(_, _)
GCD(m, n) == IF n = 0 THEN m ELSE GCD(n, m % n)

\* The rational n/d (d # 0) in lowest terms with a positive denominator.
Norm(n, d) ==
    LET g == GCD(Abs(n), Abs(d))
        s == IF d < 0 THEN -1 ELSE 1
    IN  <<(s * n) \div g, (s * d) \div g>>

Zero == <<0, 1>>
Two == <<2, 1>>
FromInt(n) == <<n, 1>>

RAdd(p, q) == Norm(p[1] * q[2] + q[1] * p[2], p[2] * q[2])
RSub(p, q) == Norm(p[1] * q[2] - q[1] * p[2], p[2] * q[2])
RMul(p, q) == Norm(p[1] * q[1], p[2] * q[2])
RDiv(p, q) == Norm(p[1] * q[2], p[2] * q[1])
RAbs(p) == <<Abs(p[1]), p[2]>>
RLt(p, q) == p[1] * q[2] < q[1] * p[2]
RLe(p, q) == p[1] * q[2] <= q[1] * p[2]

\* A local name that is not bound yet.
Unbound == <<0, 0>>

\* The outcome of an evaluation that raises (an Exception, as func's
\* TypeError: what "except Exception" catches).
Raise == <<1, 0>>

Points == {FromInt(p) : p \in 0..MaxPoint}
Budgets == 0..MaxIter
Tolerances == {Zero, <<1, 4>>, FromInt(2)}
Steps == {FromInt(-1), Zero, <<1, 2>>, FromInt(1)}

\* ------------------------------------------------------------------ state

VARIABLES
    pc,          \* position in the running call
    op,          \* the function called
    a, b, epsilon, max_iter,   \* parameters of the solvers
    x, h,        \* parameters of difference_quotient
    f_a, f_b, f_c, current_a, current_b, iter_count,   \* bisection's locals
    fa, fb, fc, i,             \* secant's locals
    c,           \* the local c of bisection and of secant
    x_curr, x_new, deriv_val, iteration,    \* newton's locals
    memo,        \* evaluator outcomes so far: <<name, point>> -> outcome
    evals,       \* the evaluations made, in order
    notice,      \* TRUE once the advisory message is printed
    result       \* how the call ended

params == <<a, b, epsilon, max_iter, x, h>>
bisLocals == <<f_a, f_b, f_c, current_a, current_b, iter_count>>
secLocals == <<fa, fb, fc, i>>
newLocals == <<x_curr, x_new, deriv_val, iteration>>
vars == <<pc, op, params, bisLocals, secLocals, newLocals, c, memo, evals, notice, result>>

\* ------------------------------------------------------------- evaluators

\* The values evaluator name ranges over.
Range(name) == IF name = "f" THEN Vals ELSE IF name = "df" THEN Slopes ELSE Curvatures

\* The outcomes evaluator name may produce at point pt, given what m holds:
\* the remembered one, or else any value or an exception.
Outcomes(m, name, pt) ==
    IF <<name, pt>> \in DOMAIN m
    THEN {m[<<name, pt>>]}
    ELSE {FromInt(v) : v \in Range(name)} \cup {Raise}

Remember(m, name, pt, o) ==
    IF <<name, pt>> \in DOMAIN m THEN m ELSE m @@ (<<name, pt>> :> o)

\* ---------------------------------------------------------------- results

Pending == [kind |-> "pending", root |-> Unbound, iters |-> 0, line |-> 0, exc |-> ""]

ReturnNone(ln) == [kind |-> "none", root |-> Unbound, iters |-> 0, line |-> ln, exc |-> ""]

ReturnPair(r, n, ln) == [kind |-> "pair", root |-> r, iters |-> n, line |-> ln, exc |-> ""]

ReturnValue(r, ln) == [kind |-> "value", root |-> r, iters |-> 0, line |-> ln, exc |-> ""]

Raised(e, ln) == [kind |-> "raise", root |-> Unbound, iters |-> 0, line |-> ln, exc |-> e]

Init ==
    /\ pc = "idle"
    /\ op = "none"
    /\ a = Unbound /\ b = Unbound /\ epsilon = Unbound /\ max_iter = 0
    /\ x = Unbound /\ h = Unbound
    /\ f_a = Unbound /\ f_b = Unbound /\ f_c = Unbound
    /\ current_a = Unbound /\ current_b = Unbound /\ iter_count = 0
    /\ fa = Unbound /\ fb = Unbound /\ fc = Unbound /\ i = 0
    /\ c = Unbound
    /\ x_curr = Unbound /\ x_new = Unbound /\ deriv_val = Unbound /\ iteration = 0
    /\ memo = <<>>
    /\ evals = <<>>
    /\ notice = FALSE
    /\ result = Pending

\* -------------------------------------------------------------- bisection

\* abs(v) < epsilon
Small(v, eps) == RLt(RAbs(v), eps)

\* (current_a + current_b) / 2.0
Midpoint(lo, hi) == RDiv(RAdd(lo, hi), Two)

\* f_a * f_b > 0
SameSign(u, v) == RLt(Zero, RMul(u, v))

\* u * v < 0
OppositeSign(u, v) == RLt(RMul(u, v), Zero)

\* abs(f_a) < epsilon, abs(f_b) < epsilon, abs(f_c) < epsilon
BisectionConvergedLoose(v, eps) == RLe(RAbs(v), eps)

BisectionConverged(v, eps) == Small(v, eps)

\* if f_a * f_c < 0: the root is in the left half, current_b moves
BisectionRootInLeftFlipped(va, vc) == SameSign(va, vc)

BisectionRootInLeft(va, vc) == OppositeSign(va, vc)

\* elif f_c * f_b < 0: the root is in the right half, current_a moves
BisectionRootInRightLoose(vc, vb) == RLe(RMul(vc, vb), Zero)

BisectionRootInRight(vc, vb) == OppositeSign(vc, vb)

\* except Exception: return None
BisectionReraise(ln) == Raised("evaluator", ln)

BisectionExcept(ln) == ReturnNone(ln)

\* bisection's checks after both endpoint evaluations succeeded.
BisectionBracket(oa, ob) ==
    /\ f_a' = oa
    /\ f_b' = ob
    /\ IF SameSign(oa, ob)
       THEN /\ result' = ReturnNone(101)
            /\ pc' = "done"
            /\ UNCHANGED <<current_a, current_b>>
       ELSE IF BisectionConverged(oa, epsilon)
       THEN /\ result' = ReturnPair(a, 0, 104)
            /\ pc' = "done"
            /\ UNCHANGED <<current_a, current_b>>
       ELSE IF BisectionConverged(ob, epsilon)
       THEN /\ result' = ReturnPair(b, 0, 106)
            /\ pc' = "done"
            /\ UNCHANGED <<current_a, current_b>>
       ELSE /\ current_a' = a
            /\ current_b' = b
            /\ pc' = "bis_loop"
            /\ UNCHANGED result

\* bisection(a, b, f, epsilon, max_iter), up to the loop.
BisectionCall(pa, pb, pe, pm) ==
    /\ pc = "idle"
    /\ op' = "bisection"
    /\ a' = pa /\ b' = pb /\ epsilon' = pe /\ max_iter' = pm
    /\ UNCHANGED <<x, h, secLocals, newLocals, c, notice, f_c, iter_count>>
    /\ IF RLe(pb, pa)
       THEN /\ result' = ReturnNone(92)
            /\ pc' = "done"
            /\ UNCHANGED <<memo, evals, f_a, f_b, current_a, current_b>>
       ELSE /\ pc' = "bis_try"
            /\ UNCHANGED <<memo, evals, f_a, f_b, current_a, current_b, result>>

\* The try block evaluating f(a) and f(b), and the checks that follow it.
BisectionEndpoints ==
    /\ pc = "bis_try"
    /\ UNCHANGED <<op, params, secLocals, newLocals, c, notice, f_c, iter_count>>
    /\ \E oa \in Outcomes(memo, "f", a) :
         LET m1 == Remember(memo, "f", a, oa)
         IN  IF oa = Raise
             THEN /\ memo' = m1
                  /\ evals' = Append(evals, <<"f", a>>)
                  /\ result' = BisectionExcept(98)
                  /\ pc' = "done"
                  /\ UNCHANGED <<f_a, f_b, current_a, current_b>>
             ELSE \E ob \in Outcomes(m1, "f", b) :
                    /\ memo' = Remember(m1, "f", b, ob)
                    /\ evals' = evals \o << <<"f", a>>, <<"f", b>> >>
                    /\ IF ob = Raise
                       THEN /\ result' = BisectionExcept(98)
                            /\ pc' = "done"
                            /\ UNCHANGED <<f_a, f_b, current_a, current_b>>
                       ELSE BisectionBracket(oa, ob)

\* One pass of the loop head: the midpoint and its evaluation.
BisectionMidpoint ==
    /\ pc = "bis_loop"
    /\ iter_count < max_iter
    /\ iter_count' = iter_count + 1
    /\ c' = Midpoint(current_a, current_b)
    /\ UNCHANGED <<op, params, secLocals, newLocals, notice, f_a, f_b, current_a, current_b>>
    /\ \E o \in Outcomes(memo, "f", c') :
         /\ memo' = Remember(memo, "f", c', o)
         /\ evals' = Append(evals, <<"f", c'>>)
         /\ IF o = Raise
            THEN /\ result' = BisectionExcept(121)
                 /\ pc' = "done"
                 /\ UNCHANGED f_c
            ELSE /\ f_c' = o
                 /\ pc' = "bis_test"
                 /\ UNCHANGED result

\* The rest of the loop body: the convergence test and the narrowing.
BisectionNarrow ==
    /\ pc = "bis_test"
    /\ UNCHANGED <<op, params, secLocals, newLocals, c, notice, f_a, f_b, f_c, iter_count, memo, evals>>
    /\ IF BisectionConverged(f_c, epsilon)
       THEN /\ result' = ReturnPair(c, iter_count, 124)
            /\ pc' = "done"
            /\ UNCHANGED <<current_a, current_b>>
       ELSE IF BisectionRootInLeft(f_a, f_c)
       THEN /\ current_b' = c
            /\ pc' = "bis_loop"
            /\ UNCHANGED <<current_a, result>>
       ELSE IF BisectionRootInRight(f_c, f_b)
       THEN /\ current_a' = c
            /\ pc' = "bis_loop"
            /\ UNCHANGED <<current_b, result>>
       ELSE /\ result' = ReturnPair(c, iter_count, 133)
            /\ pc' = "done"
            /\ UNCHANGED <<current_a, current_b>>

\* The loop ran max_iter times.
BisectionExhausted ==
    /\ pc = "bis_loop"
    /\ iter_count >= max_iter
    /\ notice' = TRUE
    /\ result' = ReturnPair(Midpoint(current_a, current_b), max_iter, 137)
    /\ pc' = "done"
    /\ UNCHANGED <<op, params, bisLocals, secLocals, newLocals, c, memo, evals>>

\* ----------------------------------------------------------------- secant

\* c = b - fb * (b - a) / (fb - fa)
SecantPoint(pa, pb, va, vb) == RSub(pb, RDiv(RMul(vb, RSub(pb, pa)), RSub(vb, va)))

\* abs(fc) < epsilon or abs(c - b) < epsilon
SecantConverged(vc, pc0, pb, eps) == Small(vc, eps) \/ Small(RSub(pc0, pb), eps)

\* if fa * fb >= 0: return None
SecantRejectsStrict(va, vb) == RLt(Zero, RMul(va, vb))

SecantRejects(va, vb) == RLe(Zero, RMul(va, vb))

\* if fa * fc < 0: the branch that replaces b
SecantReplacesBFlipped(va, vc) == SameSign(va, vc)

SecantReplacesB(va, vc) == OppositeSign(va, vc)

\* secant(a, b, f, epsilon, max_iters), up to the loop.
SecantCall(pa, pb, pe, pm) ==
    /\ pc = "idle"
    /\ op' = "secant"
    /\ a' = pa /\ b' = pb /\ epsilon' = pe /\ max_iter' = pm
    /\ UNCHANGED <<x, h, bisLocals, newLocals, c, notice, fc, i>>
    /\ \E oa \in Outcomes(memo, "f", pa) :
         LET m1 == Remember(memo, "f", pa, oa)
         IN  IF oa = Raise
             THEN /\ memo' = m1
                  /\ evals' = Append(evals, <<"f", pa>>)
                  /\ result' = Raised("evaluator", 148)
                  /\ pc' = "done"
                  /\ UNCHANGED <<fa, fb>>
             ELSE \E ob \in Outcomes(m1, "f", pb) :
                    /\ memo' = Remember(m1, "f", pb, ob)
                    /\ evals' = evals \o << <<"f", pa>>, <<"f", pb>> >>
                    /\ IF ob = Raise
                       THEN /\ result' = Raised("evaluator", 149)
                            /\ pc' = "done"
                            /\ UNCHANGED <<fa, fb>>
                       ELSE /\ fa' = oa
                            /\ fb' = ob
                            /\ IF SecantRejects(oa, ob)
                               THEN /\ result' = ReturnNone(152)
                                    /\ pc' = "done"
                               ELSE /\ pc' = "sec_loop"
                                    /\ UNCHANGED result

\* The first half of the loop body: the secant point and its evaluation.
SecantStep ==
    /\ pc = "sec_loop"
    /\ i < max_iter
    /\ i' = i + 1
    /\ UNCHANGED <<op, params, bisLocals, newLocals, notice, fa, fb>>
    /\ IF fb = fa
       THEN /\ result' = ReturnNone(159)
            /\ pc' = "done"
            /\ UNCHANGED <<c, fc, memo, evals>>
       ELSE /\ c' = SecantPoint(a, b, fa, fb)
            /\ \E o \in Outcomes(memo, "f", c') :
                 /\ memo' = Remember(memo, "f", c', o)
                 /\ evals' = Append(evals, <<"f", c'>>)
                 /\ IF o = Raise
                    THEN /\ result' = Raised("evaluator", 163)
                         /\ pc' = "done"
                         /\ UNCHANGED fc
                    ELSE /\ fc' = o
                         /\ pc' = "sec_test"
                         /\ UNCHANGED result

\* The second half of the loop body: the convergence test and the replacement.
SecantUpdate ==
    /\ pc = "sec_test"
    /\ UNCHANGED <<op, epsilon, max_iter, x, h, bisLocals, newLocals, notice, c, fc, i, memo, evals>>
    /\ IF SecantConverged(fc, c, b, epsilon)
       THEN /\ result' = ReturnPair(c, i, 167)
            /\ pc' = "done"
            /\ UNCHANGED <<a, b, fa, fb>>
       ELSE IF SecantReplacesB(fa, fc)
       THEN /\ b' = c
            /\ fb' = fc
            /\ pc' = "sec_loop"
            /\ UNCHANGED <<a, fa, result>>
       ELSE /\ a' = c
            /\ fa' = fc
            /\ pc' = "sec_loop"
            /\ UNCHANGED <<b, fb, result>>

\* return c, i after the loop; c is bound only if the loop body ran.
SecantExhausted ==
    /\ pc = "sec_loop"
    /\ i >= max_iter
    /\ result' = IF c = Unbound
                 THEN Raised("UnboundLocalError", 177)
                 ELSE ReturnPair(c, i, 177)
    /\ pc' = "done"
    /\ UNCHANGED <<op, params, bisLocals, secLocals, newLocals, c, memo, evals, notice>>

\* ---------------------------------------------------- difference_quotient

\* (f(x + h) - f(x)) / h
QuotientBackward(vxh, vx, ph) == RDiv(RSub(vx, vxh), ph)

Quotient(vxh, vx, ph) == RDiv(RSub(vxh, vx), ph)

\* difference_quotient(f, x, h)
DifferenceQuotient(px, ph) ==
    /\ pc = "idle"
    /\ op' = "difference_quotient"
    /\ x' = px /\ h' = ph
    /\ pc' = "done"
    /\ UNCHANGED <<a, b, epsilon, max_iter, bisLocals, secLocals, newLocals, c, notice>>
    /\ IF ph = Zero
       THEN /\ result' = ReturnNone(185)
            /\ UNCHANGED <<memo, evals>>
       ELSE \E o1 \in Outcomes(memo, "f", RAdd(px, ph)) :
              LET m1 == Remember(memo, "f", RAdd(px, ph), o1)
              IN  IF o1 = Raise
                  THEN /\ memo' = m1
                       /\ evals' = Append(evals, <<"f", RAdd(px, ph)>>)
                       /\ result' = Raised("evaluator", 187)
                  ELSE \E o2 \in Outcomes(m1, "f", px) :
                         /\ memo' = Remember(m1, "f", px, o2)
                         /\ evals' = evals \o << <<"f", RAdd(px, ph)>>, <<"f", px>> >>
                         /\ result' = IF o2 = Raise
                                      THEN Raised("evaluator", 187)
                                      ELSE ReturnValue(Quotient(o1, o2, ph), 187)

\* ----------------------------------------------------------------- newton

\* f(a) * ddf(a) > 0, f(b) * ddf(b) > 0
NewtonConvexLoose(fv, ddv) == RLe(Zero, RMul(fv, ddv))

NewtonConvex(fv, ddv) == RLt(Zero, RMul(fv, ddv))

\* if deriv_val == 0
NewtonFlatNever(d) == FALSE

NewtonFlat(d) == d = Zero

\* x_new = x_curr - f(x_curr) / deriv_val
NewtonUpdate(xc, fv, d) == RSub(xc, RDiv(fv, d))

\* newton(f, df, ddf, a, b, epsilon, max_iter): the test of the endpoint a.
NewtonCall(pa, pb, pe, pm) ==
    /\ pc = "idle"
    /\ op' = "newton"
    /\ a' = pa /\ b' = pb /\ epsilon' = pe /\ max_iter' = pm
    /\ UNCHANGED <<x, h, bisLocals, secLocals, c, notice, x_new, deriv_val, iteration>>
    /\ \E o1 \in Outcomes(memo, "f", pa) :
         LET m1 == Remember(memo, "f", pa, o1)
         IN  IF o1 = Raise
             THEN /\ memo' = m1
                  /\ evals' = Append(evals, <<"f", pa>>)
                  /\ result' = Raised("evaluator", 200)
                  /\ pc' = "done"
                  /\ UNCHANGED x_curr
             ELSE \E o2 \in Outcomes(m1, "ddf", pa) :
                    /\ memo' = Remember(m1, "ddf", pa, o2)
                    /\ evals' = evals \o << <<"f", pa>>, <<"ddf", pa>> >>
                    /\ IF o2 = Raise
                       THEN /\ result' = Raised("evaluator", 200)
                            /\ pc' = "done"
                            /\ UNCHANGED x_curr
                       ELSE IF NewtonConvex(o1, o2)
                       THEN /\ x_curr' = pa
                            /\ pc' = "new_loop"
                            /\ UNCHANGED result
                       ELSE /\ pc' = "new_elif"
                            /\ UNCHANGED <<x_curr, result>>

\* The elif test of the endpoint b, and the else branch.
NewtonElse ==
    /\ pc = "new_elif"
    /\ UNCHANGED <<op, params, bisLocals, secLocals, c, notice, x_new, deriv_val, iteration>>
    /\ \E o1 \in Outcomes(memo, "f", b) :
         LET m1 == Remember(memo, "f", b, o1)
         IN  IF o1 = Raise
             THEN /\ memo' = m1
                  /\ evals' = Append(evals, <<"f", b>>)
                  /\ result' = Raised("evaluator", 202)
                  /\ pc' = "done"
                  /\ UNCHANGED x_curr
             ELSE \E o2 \in Outcomes(m1, "ddf", b) :
                    /\ memo' = Remember(m1, "ddf", b, o2)
                    /\ evals' = evals \o << <<"f", b>>, <<"ddf", b>> >>
                    /\ IF o2 = Raise
                       THEN /\ result' = Raised("evaluator", 202)
                            /\ pc' = "done"
                            /\ UNCHANGED x_curr
                       ELSE /\ x_curr' = IF NewtonConvex(o1, o2) THEN b ELSE Midpoint(a, b)
                            /\ pc' = "new_loop"
                            /\ UNCHANGED result

\* The first half of the loop body: the derivative and the flat-tangent test.
NewtonDerivative ==
    /\ pc = "new_loop"
    /\ iteration < max_iter
    /\ iteration' = iteration + 1
    /\ UNCHANGED <<op, params, bisLocals, secLocals, c, notice, x_curr, x_new>>
    /\ \E o \in Outcomes(memo, "df", x_curr) :
         /\ memo' = Remember(memo, "df", x_curr, o)
         /\ evals' = Append(evals, <<"df", x_curr>>)
         /\ IF o = Raise
            THEN /\ result' = Raised("evaluator", 211)
                 /\ pc' = "done"
                 /\ UNCHANGED deriv_val
            ELSE /\ deriv_val' = o
                 /\ IF NewtonFlat(o)
                    THEN /\ result' = ReturnNone(213)
                         /\ pc' = "done"
                    ELSE /\ pc' = "new_step"
                         /\ UNCHANGED result

\* The second half of the loop body: the update and the convergence test.
NewtonStep ==
    /\ pc = "new_step"
    /\ UNCHANGED <<op, params, bisLocals, secLocals, c, notice, deriv_val, iteration>>
    /\ \E o1 \in Outcomes(memo, "f", x_curr) :
         LET m1 == Remember(memo, "f", x_curr, o1)
         IN  IF o1 = Raise
             THEN /\ memo' = m1
                  /\ evals' = Append(evals, <<"f", x_curr>>)
                  /\ result' = Raised("evaluator", 215)
                  /\ pc' = "done"
                  /\ UNCHANGED <<x_curr, x_new>>
             ELSE IF deriv_val = Zero
             THEN /\ memo' = m1
                  /\ evals' = Append(evals, <<"f", x_curr>>)
                  /\ result' = Raised("ZeroDivisionError", 215)
                  /\ pc' = "done"
                  /\ UNCHANGED <<x_curr, x_new>>
             ELSE /\ x_new' = NewtonUpdate(x_curr, o1, deriv_val)
                  /\ IF Small(RSub(x_new', x_curr), epsilon)
                     THEN /\ memo' = m1
                          /\ evals' = Append(evals, <<"f", x_curr>>)
                          /\ result' = ReturnPair(x_new', iteration, 218)
                          /\ pc' = "done"
                          /\ UNCHANGED x_curr
                     ELSE \E o2 \in Outcomes(m1, "f", x_new') :
                            /\ memo' = Remember(m1, "f", x_new', o2)
                            /\ evals' = evals \o << <<"f", x_curr>>, <<"f", x_new'>> >>
                            /\ IF o2 = Raise
                               THEN /\ result' = Raised("evaluator", 217)
                                    /\ pc' = "done"
                                    /\ UNCHANGED x_curr
                               ELSE IF Small(o2, epsilon)
                               THEN /\ result' = ReturnPair(x_new', iteration, 218)
                                    /\ pc' = "done"
                                    /\ UNCHANGED x_curr
                               ELSE /\ x_curr' = x_new'
                                    /\ pc' = "new_loop"
                                    /\ UNCHANGED result

\* return x_curr, iteration after the loop.
NewtonExhausted ==
    /\ pc = "new_loop"
    /\ iteration >= max_iter
    /\ result' = ReturnPair(x_curr, iteration, 222)
    /\ pc' = "done"
    /\ UNCHANGED <<op, params, bisLocals, secLocals, newLocals, c, memo, evals, notice>>

\* A call is one of the four operations, on inputs from the bounded sets.
Next ==
    \/ \E pa \in Points, pb \in Points, pe \in Tolerances, pm \in Budgets :
         BisectionCall(pa, pb, pe, pm)
    \/ BisectionEndpoints
    \/ BisectionMidpoint
    \/ BisectionNarrow
    \/ BisectionExhausted
    \/ \E pa \in Points, pb \in Points, pe \in Tolerances, pm \in Budgets :
         SecantCall(pa, pb, pe, pm)
    \/ SecantStep
    \/ SecantUpdate
    \/ SecantExhausted
    \/ \E px \in Points, ph \in Steps : DifferenceQuotient(px, ph)
    \/ \E pa \in Points, pb \in Points, pe \in Tolerances, pm \in Budgets :
         NewtonCall(pa, pb, pe, pm)
    \/ NewtonElse
    \/ NewtonDerivative
    \/ NewtonStep
    \/ NewtonExhausted

Spec == Init /\ [][Next]_vars

\* ----------------------------------------------------------- vocabulary

\* The value remembered for f at pt.
FVal(pt) == memo[<<"f", pt>>]

Evaluated(name, pt) == <<name, pt>> \in DOMAIN memo

\* No evaluation so far has raised.
NoRaise == \A k \in DOMAIN memo : memo[k] # Raise

RECURSIVE Pow2(_)
Pow2(n) == IF n = 0 THEN 1 ELSE 2 * Pow2(n - 1)

Positive(p) == p[1] > 0 /\ p[2] > 0

Sign(p) == IF p[1] > 0 THEN 1 ELSE IF p[1] < 0 THEN -1 ELSE 0

\* ------------------------------------------------------------------ claims

\* C1: bisection on a < b with a non-raising f, f(a)*f(b) < 0 and
\* epsilon > 0 returns a pair (c, n), never None, with |f(c)| < epsilon or
\* n = max_iter.
C1_BisectionPostcondition ==
    ( /\ op = "bisection"
      /\ pc = "done"
      /\ RLt(a, b)
      /\ NoRaise
      /\ Positive(epsilon)
      /\ RLt(RMul(FVal(a), FVal(b)), Zero) )
    => /\ result.kind = "pair"
       /\ \/ result.iters = max_iter
          \/ /\ Evaluated("f", result.root)
             /\ RLt(RAbs(FVal(result.root)), epsilon)

\* A call that converged at the midpoint of its first pass, with a pass
\* of the budget left.
C1_Witness ==
    /\ op = "bisection"
    /\ pc = "done"
    /\ NoRaise
    /\ Positive(epsilon)
    /\ result.kind = "pair"
    /\ result.line = 124
    /\ result.iters = 1
    /\ max_iter = 2

\* C2: when the loop ends without convergence and without a zero
\* derivative or denominator, each solver returns a (root, iterations)
\* pair, for every budget including 0; secant returns its last (c, i).
C2_ExhaustionIsSuccess ==
    (pc = "done" /\ result.line \in {137, 177, 222})
    => /\ result.kind = "pair"
       /\ (op = "secant" => result.root = c /\ result.iters = i)

\* C3: an evaluator exception inside bisection yields None and is never
\* raised to the caller; inside secant or newton it propagates.
C3_EvaluatorFailurePolicy ==
    /\ (op = "bisection" => result.kind # "raise")
    /\ (pc = "done" /\ ~ NoRaise /\ op = "bisection")
       => (result.kind = "none" /\ result.root = Unbound)
    /\ (pc = "done" /\ ~ NoRaise /\ op \in {"secant", "newton"})
       => (result.kind = "raise" /\ result.exc = "evaluator")

\* f raised at the midpoint of bisection's second pass.
C3_Witness ==
    /\ op = "bisection"
    /\ pc = "done"
    /\ iter_count = 2
    /\ current_b # b
    /\ FVal(c) = Raise
    /\ result.kind = "none"

\* C4: newton returns None exactly when df is 0 at the current iterate of
\* some pass of the loop, whatever the budget; every other call that
\* completes returns a pair.
C4_NewtonNoneIffFlat ==
    op = "newton" =>
      /\ (pc = "new_step" => deriv_val # Zero)
      /\ (Evaluated("df", x_curr) /\ memo[<<"df", x_curr>>] = Zero)
         => (pc = "done" /\ result.kind = "none")
      /\ (pc = "done" /\ result.kind = "none")
         => (Evaluated("df", x_curr) /\ memo[<<"df", x_curr>>] = Zero)
      /\ (pc = "done" /\ result.kind # "raise")
         => result.kind \in {"none", "pair"}

\* A zero derivative met in the second pass.
C4_Witness ==
    /\ op = "newton"
    /\ pc = "done"
    /\ result.kind = "none"
    /\ iteration = 2
    /\ deriv_val = Zero

\* C5: bisection returns None without evaluating f when a >= b, and
\* returns None before any pass of the loop when f(a)*f(b) > 0, even with
\* an endpoint residual below epsilon; secant returns None before any pass
\* when f(a)*f(b) >= 0, exact roots at the endpoints included.
C5_InvalidBracketRejected ==
    /\ (op = "bisection" /\ RLe(b, a))
       => (pc = "done" /\ result.kind = "none" /\ evals = <<>>)
    /\ ( /\ op = "bisection"
         /\ Evaluated("f", a) /\ Evaluated("f", b) /\ NoRaise
         /\ RLt(Zero, RMul(FVal(a), FVal(b))) )
       => (pc = "done" /\ result.kind = "none" /\ iter_count = 0 /\ c = Unbound)
    /\ ( /\ op = "secant"
         /\ i = 0
         /\ Evaluated("f", a) /\ Evaluated("f", b) /\ NoRaise
         /\ RLe(Zero, RMul(FVal(a), FVal(b))) )
       => (pc = "done" /\ result.kind = "none" /\ c = Unbound)

\* secant rejected a pair of points of which one is an exact root.
C5_Witness ==
    /\ op = "secant"
    /\ pc = "done"
    /\ result.kind = "none"
    /\ FVal(a) = Zero
    /\ FVal(b) # Zero
    /\ Positive(epsilon)

\* C6: difference_quotient returns None for h = 0 without evaluating f;
\* for h # 0 it returns (f(x+h) - f(x)) / h, and does nothing but evaluate
\* f at x+h and at x.
C6_DifferenceQuotient ==
    (op = "difference_quotient" /\ pc = "done") =>
      /\ notice = FALSE
      /\ <<bisLocals, secLocals, newLocals, c>>
           = <<<<Unbound, Unbound, Unbound, Unbound, Unbound, 0>>,
               <<Unbound, Unbound, Unbound, 0>>,
               <<Unbound, Unbound, Unbound, 0>>, Unbound>>
      /\ IF h = Zero
         THEN result.kind = "none" /\ evals = <<>> /\ memo = <<>>
         ELSE /\ \/ evals = << <<"f", RAdd(x, h)>> >>
                 \/ evals = << <<"f", RAdd(x, h)>>, <<"f", x>> >>
              /\ DOMAIN memo = {evals[n] : n \in 1..Len(evals)}
              /\ NoRaise =>
                   /\ result.kind = "value"
                   /\ Len(evals) = 2
                   /\ RMul(result.root, h) = RSub(FVal(RAdd(x, h)), FVal(x))

\* A quotient over a fractional step with a non-zero slope.
C6_Witness ==
    /\ op = "difference_quotient"
    /\ pc = "done"
    /\ h = <<1, 2>>
    /\ result.kind = "value"
    /\ result.root = FromInt(-4)

\* C7, as the source has it: in bisection's loop current_b moves to c when
\* f_a*f_c < 0 and otherwise current_a moves to c when f_c*f_b < 0; the
\* cached f_a and f_b are never changed and f is never evaluated again at
\* a or b.
C7_EndpointUpdates ==
    [][ (op = "bisection" /\ pc \in {"bis_loop", "bis_test"}) =>
          /\ f_a' = f_a
          /\ f_b' = f_b
          /\ \/ evals' = evals
             \/ evals' = Append(evals, <<"f", c'>>) /\ c' \notin {a, b}
          /\ (current_b' # current_b) =>
               /\ pc = "bis_test"
               /\ current_b' = c
               /\ current_a' = current_a
               /\ RLt(RMul(f_a, f_c), Zero)
          /\ (current_a' # current_a) =>
               /\ pc = "bis_test"
               /\ current_a' = c
               /\ current_b' = current_b
               /\ ~ RLt(RMul(f_a, f_c), Zero)
               /\ RLt(RMul(f_c, f_b), Zero) ]_vars

\* Both endpoints have moved after two passes.
C7_Witness ==
    /\ op = "bisection"
    /\ pc = "bis_loop"
    /\ iter_count = 2
    /\ current_a # a
    /\ current_b # b
    /\ f_a = FVal(a)
    /\ f_b = FVal(b)

\* C7, as claimed: only the upper endpoint ever moves, the lower endpoint
\* of the working interval stays the original a, and the cached f_a, f_b
\* stay as first evaluated.
C7_OnlyUpperEndpointMoves ==
    (op = "bisection" /\ pc \in {"bis_loop", "bis_test"})
    => (current_a = a /\ f_a = FVal(a) /\ f_b = FVal(b))

\* C8: newton starts at a when f(a)*ddf(a) > 0, whatever holds at b;
\* otherwise at b when f(b)*ddf(b) > 0; otherwise at (a+b)/2.
C8_NewtonStartPoint ==
    (op = "newton" /\ pc = "new_loop" /\ iteration = 0) =>
      IF RLt(Zero, RMul(FVal(a), memo[<<"ddf", a>>]))
      THEN x_curr = a /\ evals = << <<"f", a>>, <<"ddf", a>> >>
      ELSE /\ Evaluated("f", b)
           /\ Evaluated("ddf", b)
           /\ IF RLt(Zero, RMul(FVal(b), memo[<<"ddf", b>>]))
              THEN x_curr = b
              ELSE RMul(x_curr, Two) = RAdd(a, b)

\* newton started at a, the lower endpoint, never looked at b, and its
\* next iterate left [a, b].
C8_Witness ==
    /\ op = "newton"
    /\ pc = "new_loop"
    /\ iteration = 1
    /\ RLt(a, b)
    /\ RLt(Zero, RMul(FVal(a), memo[<<"ddf", a>>]))
    /\ ~ Evaluated("f", b)
    /\ RLt(x_curr, a)

\* C9: with epsilon > 0, at the head of every pass of bisection's loop
\* a <= current_a < current_b <= b, the width is (b - a) / 2^(passes done),
\* f(current_a) has the sign of f(a) and f(current_b) the sign of f(b),
\* and these signs are opposite.
C9_BisectionBracketInvariant ==
    (op = "bisection" /\ pc = "bis_loop" /\ Positive(epsilon)) =>
      /\ RLe(a, current_a)
      /\ RLt(current_a, current_b)
      /\ RLe(current_b, b)
      /\ RMul(RSub(current_b, current_a), FromInt(Pow2(iter_count))) = RSub(b, a)
      /\ Sign(FVal(current_a)) = Sign(f_a)
      /\ Sign(FVal(current_b)) = Sign(f_b)
      /\ Sign(f_a) * Sign(f_b) = -1

\* The head of the second pass, the lower endpoint having moved.
C9_Witness ==
    /\ op = "bisection"
    /\ pc = "bis_loop"
    /\ Positive(epsilon)
    /\ iter_count = 1
    /\ max_iter = 2
    /\ current_a # a

\* C10: with epsilon > 0, at the head of every pass of secant's loop
\* fa*fb < 0, so fb # fa and the zero-denominator return is never taken;
\* every computed c lies strictly between the two retained points.
C10_SecantBracketInvariant ==
    (op = "secant" /\ Positive(epsilon)) =>
      /\ (pc = "sec_loop" => (RLt(RMul(fa, fb), Zero) /\ fa # fb))
      /\ result.line # 159
      /\ (pc = "sec_test" =>
            \/ RLt(a, c) /\ RLt(c, b)
            \/ RLt(b, c) /\ RLt(c, a))

\* The head of the second pass, after a replaced its point.
C10_Witness ==
    /\ op = "secant"
    /\ pc = "sec_loop"
    /\ Positive(epsilon)
    /\ i = 1
    /\ max_iter = 2
    /\ fa = fc
    /\ a = c

====
